---- MODULE Spec2Model ----
(***************************************************************************)
(* Verification model of the Keychain password manager                     *)
(* (src/unnamed/part_000) and of the users controller of the server        *)
(* (src/server/controllers/users.js).  The first file holds three versions *)
(* of the class Keychain, separated by '#' rulers; they are modelled side  *)
(* by side and the variable "variant" says which of them a behaviour runs. *)
(* The two programs share no state: Spec runs the Keychain, ServerSpec     *)
(* the controller.                                                         *)
(*                                                                         *)
(* Strings are sequences of code points.  A JavaScript value is a record   *)
(* [t, s]: t is its type tag and s the code points of a string.            *)
(***************************************************************************)
EXTENDS Integers, Sequences, FiniteSets, TLC

VARIABLES variant, kc, saved, res, hist, users, req

vars == <<variant, kc, saved, res, hist, users, req>>

\* the state of the Keychain and the state of the server
kvars == <<variant, kc, saved, res, hist>>

svars == <<users, req>>

(***************************************************************************)
(* Bounds and input sets                                                   *)
(***************************************************************************)
MaxDumps == 1

NumSalts == 1

MAX_PASSWORD_LENGTH == 64

Variants == {1, 2, 3}

\* "0" and "map"
Domains == { <<48>>, <<109, 97, 112>> }

\* "" and "é" (U+00E9)
Secrets == { <<>>, <<233>> }

LongPassword == [i \in 1..(MAX_PASSWORD_LENGTH + 1) |-> 120]

\* "p" and "q"
ShortPasswords == { <<112>>, <<113>> }

\* and a password of 65 characters
Passwords == ShortPasswords \cup { LongPassword }

Salts == 1..NumSalts

(***************************************************************************)
(* JavaScript values                                                       *)
(***************************************************************************)
Undef == [t |-> "undefined", s |-> <<>>]

Null == [t |-> "null", s |-> <<>>]

JsTrue == [t |-> "true", s |-> <<>>]

JsFalse == [t |-> "false", s |-> <<>>]

\* an inherited member of Array.prototype / Object.prototype
Fn == [t |-> "function", s |-> <<>>]

\* marks a key that is not an own property of an object
Absent == [t |-> "absent", s |-> <<>>]

Str(s) == [t |-> "string", s |-> s]

\* ToBoolean on the values that occur: only "" (and undefined, null) is falsy
Truthy(v) == v.t \in {"function", "true"} \/ (v.t = "string" /\ v.s # <<>>)

(***************************************************************************)
(* ./lib helpers used by the third version                                 *)
(***************************************************************************)
\* UTF-8 encoding of one code point below U+0800
Utf8(cp) == IF cp < 128 THEN <<cp>> ELSE << 192 + (cp \div 64), 128 + (cp % 64) >>

RECURSIVE stringToBuffer(_)
stringToBuffer(str) ==
    IF str = <<>> THEN <<>> ELSE Utf8(Head(str)) \o stringToBuffer(Tail(str))

RECURSIVE bufferToString(_)
bufferToString(buf) ==
    IF buf = <<>> THEN <<>>
    ELSE IF buf[1] < 128 THEN <<buf[1]>> \o bufferToString(Tail(buf))
    ELSE IF buf[1] >= 192 /\ buf[1] < 224 /\ Len(buf) >= 2 /\ buf[2] >= 128 /\ buf[2] < 192
         THEN << (buf[1] - 192) * 64 + (buf[2] - 128) >> \o bufferToString(Tail(Tail(buf)))
    ELSE <<65533>> \o bufferToString(Tail(buf))

\* the character of the Base64 alphabet for a 6-bit digit
B64Char(n) ==
    IF n < 26 THEN 65 + n
    ELSE IF n < 52 THEN 97 + (n - 26)
    ELSE IF n < 62 THEN 48 + (n - 52)
    ELSE IF n = 62 THEN 43 ELSE 47

\* the 6-bit digit of a character of the Base64 alphabet
B64Digit(c) ==
    IF c >= 65 /\ c <= 90 THEN c - 65
    ELSE IF c >= 97 /\ c <= 122 THEN c - 97 + 26
    ELSE IF c >= 48 /\ c <= 57 THEN c - 48 + 52
    ELSE IF c = 43 THEN 62 ELSE 63

RECURSIVE encodeBuffer(_)
encodeBuffer(buf) ==
    IF buf = <<>> THEN <<>>
    ELSE IF Len(buf) = 1 THEN
        << B64Char(buf[1] \div 4), B64Char((buf[1] % 4) * 16), 61, 61 >>
    ELSE IF Len(buf) = 2 THEN
        << B64Char(buf[1] \div 4),
           B64Char((buf[1] % 4) * 16 + (buf[2] \div 16)),
           B64Char((buf[2] % 16) * 4), 61 >>
    ELSE
        << B64Char(buf[1] \div 4),
           B64Char((buf[1] % 4) * 16 + (buf[2] \div 16)),
           B64Char((buf[2] % 16) * 4 + (buf[3] \div 64)),
           B64Char(buf[3] % 64) >> \o encodeBuffer(SubSeq(buf, 4, Len(buf)))

RECURSIVE decodeBuffer(_)
decodeBuffer(b64) ==
    IF Len(b64) < 4 THEN <<>>
    ELSE LET d1 == B64Digit(b64[1])
             d2 == B64Digit(b64[2])
             d3 == B64Digit(b64[3])
             d4 == B64Digit(b64[4])
             rest == decodeBuffer(SubSeq(b64, 5, Len(b64)))
         IN  IF b64[3] = 61 THEN << d1 * 4 + (d2 \div 16) >>
             ELSE IF b64[4] = 61 THEN << d1 * 4 + (d2 \div 16), (d2 % 16) * 16 + (d3 \div 4) >>
             ELSE << d1 * 4 + (d2 \div 16), (d2 % 16) * 16 + (d3 \div 4), (d3 % 4) * 64 + d4 >> \o rest

(***************************************************************************)
(* Objects: this.data                                                      *)
(***************************************************************************)
\* every property key the operations can touch
Keys == Domains \cup { encodeBuffer(stringToBuffer(d)) : d \in Domains }

\* names an object inherits: "constructor" from Object.prototype, and an
\* array "map" from Array.prototype as well
ProtoNames(kind) ==
    { <<99, 111, 110, 115, 116, 114, 117, 99, 116, 111, 114>> }
        \cup (IF kind = "array" THEN { <<109, 97, 112>> } ELSE {})

NoProps == [k \in Keys |-> Absent]

\* An object: its own properties, the order in which its named properties
\* were created (JSON.stringify writes them in that order) and, for an array,
\* its length.  The array literal [] and the object literal {}:
EmptyArray == [kind |-> "array", own |-> NoProps, order |-> <<>>, length |-> 0]

EmptyObject == [kind |-> "object", own |-> NoProps, order |-> <<>>, length |-> 0]

\* the array index a property key denotes, -1 if it is a name ("0".."9" are
\* the only indices among the keys of the model)
ToIndex(key) == IF Len(key) = 1 /\ key[1] >= 48 /\ key[1] <= 57 THEN key[1] - 48 ELSE -1

\* a sequence without the element x
Without(seq, x) == SelectSeq(seq, LAMBDA y : y # x)

\* obj[key]: own property, else the prototype chain, else undefined
Lookup(obj, key) ==
    IF obj.own[key] # Absent THEN obj.own[key]
    ELSE IF key \in ProtoNames(obj.kind) THEN Fn
    ELSE Undef

\* obj[key] = value: a new named property comes last; an element beyond
\* the end of an array lengthens it
Assign(obj, key, value) ==
    [obj EXCEPT !.own[key] = value,
                !.order = IF ToIndex(key) >= 0 \/ obj.own[key] # Absent THEN @ ELSE Append(@, key),
                !.length = IF obj.kind = "array" /\ ToIndex(key) >= @ THEN ToIndex(key) + 1 ELSE @]

\* delete obj[key]: an array keeps its length, with a hole
Delete(obj, key) == [obj EXCEPT !.own[key] = Absent, !.order = Without(@, key)]

OwnKeys(obj) == { k \in Keys : obj.own[k] # Absent }

(***************************************************************************)
(* Byte strings, keys, checksums and ciphers as symbolic terms             *)
(***************************************************************************)
\* the bytes numbered id: as a Buffer ("raw") or as its text in an encoding
Bytes(enc, id) == [enc |-> enc, id |-> id]

NoBytes == Bytes("none", 0)

\* getRandomBytes(16) / crypto.randomBytes(16)
getRandomBytes == { Bytes("raw", n) : n \in Salts }

\* buf.toString(enc) and Buffer.from(text, enc)
ToText(buf, enc) == Bytes(enc, buf.id)

FromText(text, enc) == IF text.enc = enc THEN Bytes("raw", text.id) ELSE Bytes("garbage", text.id)

\* PBKDF2: a key is determined by the password and by the salt bytes given
pbkdf2(password, salt) == [pw |-> password, salt |-> salt]

NoKey == pbkdf2(<<>>, NoBytes)

\* SHA-256 digest of a text, in an encoding: an injective term
Sha256(text, enc) == [t |-> "digest", s |-> <<>>, sha |-> text, enc |-> enc]

\* JSON.stringify(this.data), as the value the text parses to.  Of an array
\* only the elements 0..length-1 are written, a hole as null, and none of
\* its named properties; of an object every property, in order.
JsonOf(obj) ==
    IF obj.kind = "array"
    THEN [EmptyArray EXCEPT
            !.length = obj.length,
            !.own = [k \in Keys |->
                       IF ToIndex(k) < 0 \/ ToIndex(k) >= obj.length THEN Absent
                       ELSE IF obj.own[k] = Absent THEN Null
                       ELSE obj.own[k]]]
    ELSE obj

\* cipher.update(...) + cipher.final(...): the ciphertext of pt
Cipher(alg, key, iv, pt) == [alg |-> alg, key |-> key, iv |-> iv, pt |-> pt, tamper |-> "none"]

\* the data of versions 1 and 2 is written in the clear
Plain(pt) == Cipher("none", NoKey, NoBytes, pt)

\* decipher.update(...) + decipher.final(...): the plaintext comes back only
\* under the algorithm, key and iv that made an unmodified ciphertext
Decipher(alg, key, iv, ct) ==
    IF ct.alg = alg /\ ct.key = key /\ ct.iv = iv /\ ct.tamper = "none"
    THEN [ok |-> TRUE, pt |-> ct.pt]
    ELSE [ok |-> FALSE, pt |-> EmptyObject]

(***************************************************************************)
(* The text JSON.stringify({salt, iv, data, ...}) writes in dump           *)
(***************************************************************************)
Text(fmt, salt, iv, data) == [fmt |-> fmt, salt |-> salt, iv |-> iv, data |-> data]

\* the top-level keys of the object the text parses to
ObjectKeys(text) ==
    IF text.fmt = 1 THEN {"salt", "iv", "data", "kvs"} ELSE {"salt", "iv", "data"}

\* the member of the parsed object a destructuring binds to a name
Field(text, key) ==
    IF key \notin ObjectKeys(text) THEN Undef
    ELSE IF key = "kvs" THEN text.data
    ELSE text[key]

\* the character text[i] of a dumped text: it starts with {"salt":
CharAt(text, i) == IF i = 0 THEN Str(<<123>>) ELSE Str(<<34>>)

(***************************************************************************)
(* The Keychain object                                                     *)
(***************************************************************************)
Keychain(password, salt, iv, key, data) ==
    [live |-> TRUE, password |-> password, salt |-> salt, iv |-> iv, key |-> key, data |-> data]

NoKeychain ==
    [live |-> FALSE, password |-> <<>>, salt |-> NoBytes, iv |-> NoBytes, key |-> NoKey, data |-> EmptyObject]

\* a call's outcome: the error thrown ("none" if it returned), the value
\* returned and the Keychain object after the call (or the one created)
Outcome(err, ret, k) == [err |-> err, ret |-> ret, kc |-> k]

\* the outcome of a load, with the steps load ran before it returned or
\* threw, in order: "parse" (JSON.parse), "verify" (the comparison with the
\* trusted checksum), "derive" (PBKDF2), "decrypt" (the decipher calls)
After(steps, out) == [err |-> out.err, ret |-> out.ret, kc |-> out.kc, steps |-> steps]

\* constructor(password, salt, iv, data) of versions 1 and 2
constructor1(password, salt, iv, data) == Keychain(password, salt, iv, NoKey, data)

\* constructor(password) of version 3
constructor3(password, salt, iv) ==
    Keychain(<<>>, salt, iv, pbkdf2(password, salt), EmptyObject)

(***************************************************************************)
(* Version 1 (lines 1-144)                                                 *)
(***************************************************************************)
init1(password, salt, iv) ==
    Outcome("none", Undef, constructor1(password, salt, iv, EmptyArray))

\* return this.data[name] || null
get1(k, name) ==
    LET v == Lookup(k.data, name)
    IN  Outcome("none", IF Truthy(v) THEN v ELSE Null, k)

\* this.data[name] = value
set1(k, name, value) ==
    Outcome("none", Undef, [k EXCEPT !.data = Assign(k.data, name, Str(value))])

remove1(k, name) ==
    IF Truthy(Lookup(k.data, name))
    THEN Outcome("none", JsTrue, [k EXCEPT !.data = Delete(k.data, name)])
    ELSE Outcome("none", JsFalse, k)

\* hash.digest('base64')
computeChecksum(data) == Sha256(data, "base64")

dump1(k) ==
    LET serializedData == Text(1, ToText(k.salt, "base64"), ToText(k.iv, "base64"), Plain(JsonOf(k.data)))
    IN  [text |-> serializedData, checksum |-> computeChecksum(serializedData)]

\* repr is a dumped text (form "string") or the array dump returned (form
\* "array", which JSON.parse turns into "<text>,<checksum>" and rejects)
load1(password, repr, form, trustedDataCheck) ==
    IF form = "array" THEN After(<<"parse">>, Outcome("SyntaxError", Undef, NoKeychain))
    ELSE
    LET serializedData == Field(repr.text, "serializedData")
        checksum == Field(repr.text, "checksum")
        isValid == checksum = trustedDataCheck
    IN  After(<<"parse", "verify">>,
              IF ~isValid THEN Outcome("IntegrityError", Undef, NoKeychain)
              \* const { salt, iv, data } = undefined throws
              ELSE IF serializedData = Undef THEN Outcome("TypeError", Undef, NoKeychain)
              ELSE Outcome("none", Undef,
                       constructor1(password, FromText(serializedData.salt, "base64"),
                                    FromText(serializedData.iv, "base64"), serializedData.data.pt)))

(***************************************************************************)
(* Version 2 (lines 149-295)                                               *)
(***************************************************************************)
init2(password, salt, iv) ==
    Outcome("none", Undef, constructor1(password, salt, iv, EmptyArray))

get2(k, name) ==
    LET v == Lookup(k.data, name)
    IN  Outcome("none", IF Truthy(v) THEN v ELSE Null, k)

set2(k, name, value) ==
    Outcome("none", Undef, [k EXCEPT !.data = Assign(k.data, name, Str(value))])

remove2(k, name) ==
    IF Truthy(Lookup(k.data, name))
    THEN Outcome("none", JsTrue, [k EXCEPT !.data = Delete(k.data, name)])
    ELSE Outcome("none", JsFalse, k)

dump2(k) ==
    LET serializedData == Text(2, ToText(k.salt, "base64"), ToText(k.iv, "base64"), Plain(JsonOf(k.data)))
    IN  [text |-> serializedData, checksum |-> computeChecksum(serializedData)]

\* repr[0] and repr[1] are the first two characters of a text, or the two
\* elements of the array dump returned
load2(password, repr, form, trustedDataCheck) ==
    LET serializedData == IF form = "array" THEN repr.text ELSE CharAt(repr.text, 0)
        checksum == IF form = "array" THEN repr.checksum ELSE CharAt(repr.text, 1)
        isValid == checksum = trustedDataCheck
    IN  IF ~isValid THEN After(<<"verify">>, Outcome("IntegrityError", Undef, NoKeychain))
        \* JSON.parse("{") throws
        ELSE IF form # "array"
        THEN After(<<"verify", "parse">>, Outcome("SyntaxError", Undef, NoKeychain))
        \* const [salt, iv, data] = <an object>: not iterable
        ELSE After(<<"verify", "parse">>, Outcome("TypeError", Undef, NoKeychain))

(***************************************************************************)
(* Version 3 (lines 298-500)                                               *)
(***************************************************************************)
init3(password, salt, iv) ==
    IF Len(password) > MAX_PASSWORD_LENGTH
    THEN Outcome("Error", Undef, NoKeychain)
    ELSE Outcome("none", Undef, constructor3(password, salt, iv))

get3(k, name) ==
    LET nameBase64 == encodeBuffer(stringToBuffer(name))
        valueBase64 == Lookup(k.data, nameBase64)
    IN  Outcome("none",
                IF valueBase64 # Undef THEN Str(bufferToString(decodeBuffer(valueBase64.s))) ELSE Null,
                k)

set3(k, name, value) ==
    LET nameBase64 == encodeBuffer(stringToBuffer(name))
        valueBase64 == encodeBuffer(stringToBuffer(value))
    IN  Outcome("none", Undef, [k EXCEPT !.data = Assign(k.data, nameBase64, Str(valueBase64))])

remove3(k, name) ==
    LET nameBase64 == encodeBuffer(stringToBuffer(name))
    IN  IF Lookup(k.data, nameBase64) # Undef
        THEN Outcome("none", JsTrue, [k EXCEPT !.data = Delete(k.data, nameBase64)])
        ELSE Outcome("none", JsFalse, k)

dump3(k) ==
    LET encryptedData == Cipher("aes-256-gcm", k.key, k.iv, JsonOf(k.data))
        serializedData == Text(3, ToText(k.salt, "hex"), ToText(k.iv, "hex"), encryptedData)
    IN  [text |-> serializedData, checksum |-> Sha256(serializedData, "hex")]

\* garbled: the wrong decryption happens to end in valid padding, so that
\* decipher.final returns garbage and JSON.parse is the call that throws
load3(password, repr, form, trustedDataCheck, garbled) ==
    IF form = "array" THEN After(<<"parse">>, Outcome("SyntaxError", Undef, NoKeychain))
    ELSE
    LET salt == Field(repr.text, "salt")
        iv == Field(repr.text, "iv")
        encryptedData == Field(repr.text, "data")
        derivedKey == pbkdf2(password, salt)
        decrypted == Decipher("aes-256-cbc", derivedKey, FromText(iv, "hex"), encryptedData)
        checksum == Sha256(repr.text, "hex")
    IN  IF ~decrypted.ok
        THEN IF garbled
             THEN After(<<"parse", "derive", "decrypt", "parse">>,
                        Outcome("SyntaxError", Undef, NoKeychain))
             ELSE After(<<"parse", "derive", "decrypt">>,
                        Outcome("DecipherError", Undef, NoKeychain))
        ELSE After(<<"parse", "derive", "decrypt", "parse", "verify">>,
                   IF trustedDataCheck # Undef /\ checksum # trustedDataCheck
                   THEN Outcome("IntegrityError", Undef, NoKeychain)
                   \* new Keychain(data): data is an object, not a string
                   ELSE Outcome("TypeError", Undef, NoKeychain))

(***************************************************************************)
(* The users controller: the User collection and the requests in flight    *)
(***************************************************************************)
NumUsers == 3

\* no more than MaxFriends entries are pushed on a friends list
MaxFriends == 2

\* the requests the server handles at a time
MaxReqs == 1

NumBcryptSalts == 1

UserIds == 1..NumUsers

\* the ids a request may carry: those of the users and one that is no user's
Ids == 1..(NumUsers + 1)

Reqs == 1..MaxReqs

\* req.user.id of the changePassword requests: one user, and a user that is
\* gone
Changers == {1, NumUsers + 1}

\* bcrypt.genSalt()
genSalt == 1..NumBcryptSalts

\* bcrypt.hash(password, salt): a hash is determined by the password and the salt
hash(password, salt) == [pw |-> password, salt |-> salt]

\* bcrypt.compare(password, h)
compare(password, h) == h.pw = password

\* "Aa1!aaaa" and "Bb2?bbbb"
StrongPasswords == { <<65, 97, 49, 33, 97, 97, 97, 97>>, <<66, 98, 50, 63, 98, 98, 98, 98>> }

\* seven characters "Aa1!aaa", no special character "Aa1aaaaa", and '#',
\* which is none of the characters allowed, "Aa1!aaa#"
WeakPasswords ==
    { <<65, 97, 49, 33, 97, 97, 97>>, <<65, 97, 49, 97, 97, 97, 97, 97>>,
      <<65, 97, 49, 33, 97, 97, 97, 35>> }

\* req.body.oldPassword and req.body.newPassword; <<>> is a field left out
OldPasswords == {<<>>} \cup StrongPasswords

NewPasswords == {<<>>} \cup StrongPasswords \cup WeakPasswords

\* /^(?=.*[a-z])(?=.*[A-Z])(?=.*\d)(?=.*[@$!%*?&])[A-Za-z\d@$!%*?&]{8,}$/
IsLower(c) == c \in 97..122

IsUpper(c) == c \in 65..90

IsDigit(c) == c \in 48..57

IsSpecial(c) == c \in {64, 36, 33, 37, 42, 63, 38}

passwordComplexityRegex(p) ==
    /\ \E i \in 1..Len(p) : IsLower(p[i])
    /\ \E i \in 1..Len(p) : IsUpper(p[i])
    /\ \E i \in 1..Len(p) : IsDigit(p[i])
    /\ \E i \in 1..Len(p) : IsSpecial(p[i])
    /\ \A i \in 1..Len(p) : IsLower(p[i]) \/ IsUpper(p[i]) \/ IsDigit(p[i]) \/ IsSpecial(p[i])
    /\ Len(p) >= 8

\* the elements of an array
Elems(arr) == { arr[i] : i \in 1..Len(arr) }

\* the collection when the server starts: nobody has friends, everybody has
\* the password "Aa1!aaaa"
NoFriends ==
    [u \in UserIds |->
        [friends |-> <<>>, password |-> hash(<<65, 97, 49, 33, 97, 97, 97, 97>>, 1)]]

\* null, what findById returns for an id that is no user's
NoDoc == [id |-> 0, friends |-> <<>>, password |-> hash(<<>>, 0)]

\* A request: the handler (op) and the await it stands at (pc), its
\* parameters, the documents it holds, the hash it computed, its response,
\* the calls it made on the collection, and the collection as it was when
\* the request came in
Request(op, pc, id, friendId, oldPassword, newPassword, before) ==
    [op |-> op, pc |-> pc, id |-> id, friendId |-> friendId,
     oldPassword |-> oldPassword, newPassword |-> newPassword,
     user |-> NoDoc, friend |-> NoDoc, newPasswordHash |-> hash(<<>>, 0),
     status |-> 0, body |-> <<>>, calls |-> <<>>, before |-> before]

ServerStart ==
    /\ users = NoFriends
    /\ req = [r \in Reqs |-> Request("none", "idle", 0, 0, <<>>, <<>>, NoFriends)]

(***************************************************************************)
(* The version a behaviour runs                                            *)
(***************************************************************************)
init(v, password, salt, iv) ==
    CASE v = 1 -> init1(password, salt, iv)
      [] v = 2 -> init2(password, salt, iv)
      [] v = 3 -> init3(password, salt, iv)

get(v, k, name) ==
    CASE v = 1 -> get1(k, name)
      [] v = 2 -> get2(k, name)
      [] v = 3 -> get3(k, name)

set(v, k, name, value) ==
    CASE v = 1 -> set1(k, name, value)
      [] v = 2 -> set2(k, name, value)
      [] v = 3 -> set3(k, name, value)

remove(v, k, name) ==
    CASE v = 1 -> remove1(k, name)
      [] v = 2 -> remove2(k, name)
      [] v = 3 -> remove3(k, name)

dump(v, k) ==
    CASE v = 1 -> dump1(k)
      [] v = 2 -> dump2(k)
      [] v = 3 -> dump3(k)

load(v, password, repr, form, trustedDataCheck, garbled) ==
    CASE v = 1 -> load1(password, repr, form, trustedDataCheck)
      [] v = 2 -> load2(password, repr, form, trustedDataCheck)
      [] v = 3 -> load3(password, repr, form, trustedDataCheck, garbled)

\* the key under which the version keeps the entry of a domain
SlotOf(v, name) == IF v = 3 THEN encodeBuffer(stringToBuffer(name)) ELSE name

\* the object holds an entry (an own property) for the domain
HasEntry(v, k, name) == k.data.own[SlotOf(v, name)] # Absent

\* the master password a Keychain object was created with
PasswordOf(v, k) == IF v = 3 THEN k.key.pw ELSE k.password

(***************************************************************************)
(* What an adversary does to a dumped text before it is loaded             *)
(***************************************************************************)
\* another string than s
Flip(s) == IF s = <<>> THEN <<120>> ELSE <<s[1] + 1>> \o Tail(s)

\* how = "flip": the stored data of b's entry is modified;
\* how = "swap": the stored data of a's entry is copied into b's slot.
\* A text that holds no such entry is left as it is.
Tamper(v, text, how, a, b) ==
    LET pt == text.data.pt
        sa == SlotOf(v, a)
        sb == SlotOf(v, b)
        there == /\ pt.own[sb].t = "string"
                 /\ how = "swap" => pt.own[sa].t = "string" /\ pt.own[sa] # pt.own[sb]
    IN  IF how = "none" \/ ~there THEN text
        ELSE IF text.data.alg # "none" THEN [text EXCEPT !.data.tamper = how]
        ELSE IF how = "flip" THEN [text EXCEPT !.data.pt.own[sb] = Str(Flip(pt.own[sb].s))]
        ELSE [text EXCEPT !.data.pt.own[sb] = pt.own[sa]]

\* the ways of tampering <<how, a, b>>: none, or flip b, or swap a into b
Tampers ==
    { <<"none", <<48>>, <<48>>>> }
        \cup { <<"flip", b, b>> : b \in Domains }
        \cup { w \in { <<"swap", a, b>> : a, b \in Domains } : w[2] # w[3] }

(***************************************************************************)
(* The state machine: one Keychain object and its caller                   *)
(*   variant  the version of the class that runs                           *)
(*   kc       the Keychain object the caller holds                         *)
(*   saved    what the dump calls returned, with the object dumped         *)
(*   res      the last call: its arguments, return value and error; for a  *)
(*            load, match says whether the trusted checksum passed is the  *)
(*            checksum of the very text passed, and steps the steps it ran *)
(*   hist     per domain, the secret of the last set not followed by a     *)
(*            remove of that domain (Absent if there is none)              *)
(***************************************************************************)
Res(op) ==
    [op |-> op, name |-> <<>>, value |-> <<>>, ret |-> Undef, err |-> "none",
     pw |-> <<>>, idx |-> 0, how |-> "none", a |-> <<>>, b |-> <<>>,
     form |-> "none", t |-> 0, match |-> FALSE, steps |-> <<>>]

Init ==
    /\ variant \in Variants
    /\ kc = NoKeychain
    /\ saved = <<>>
    /\ res = Res("start")
    /\ hist = [d \in Domains |-> Absent]
    /\ ServerStart

\* Keychain.init(password); a behaviour follows the one object it creates
CallInit(password) ==
    /\ ~kc.live
    /\ \E salt \in getRandomBytes, iv \in getRandomBytes :
         LET out == init(variant, password, salt, iv)
         IN  /\ kc' = out.kc
             /\ res' = [Res("init") EXCEPT !.pw = password, !.err = out.err]
    /\ hist' = [d \in Domains |-> Absent]
    /\ UNCHANGED <<variant, saved, users, req>>

CallSet(name, value) ==
    /\ kc.live
    /\ LET out == set(variant, kc, name, value)
       IN  /\ kc' = out.kc
           /\ res' = [Res("set") EXCEPT !.name = name, !.value = value, !.err = out.err]
    /\ hist' = [hist EXCEPT ![name] = Str(value)]
    /\ UNCHANGED <<variant, saved, users, req>>

CallGet(name) ==
    /\ kc.live
    /\ LET out == get(variant, kc, name)
       IN  /\ kc' = out.kc
           /\ res' = [Res("get") EXCEPT !.name = name, !.ret = out.ret, !.err = out.err]
    /\ UNCHANGED <<variant, saved, hist, users, req>>

CallRemove(name) ==
    /\ kc.live
    /\ LET out == remove(variant, kc, name)
       IN  /\ kc' = out.kc
           /\ res' = [Res("remove") EXCEPT !.name = name, !.ret = out.ret, !.err = out.err]
    /\ hist' = [hist EXCEPT ![name] = Absent]
    /\ UNCHANGED <<variant, saved, users, req>>

CallDump ==
    /\ kc.live
    /\ Len(saved) < MaxDumps
    /\ saved' = Append(saved, [text |-> dump(variant, kc).text, src |-> kc])
    /\ res' = [Res("dump") EXCEPT !.idx = Len(saved) + 1]
    /\ UNCHANGED <<variant, kc, hist, users, req>>

\* the checksum of a text, as the dump of the version computes it
Digest(v, text) == IF v = 3 THEN Sha256(text, "hex") ELSE computeChecksum(text)

\* the checksum the i-th dump returned with its text
ChecksumOf(i) == dump(variant, saved[i].src).checksum

\* t = Newer: the checksum of a dump of the object as it is now
Newer == MaxDumps + 1

\* the trusted checksum a caller passes: none (t = 0), the one the t-th
\* dump returned, or the one of a newer dump
Trusted(t) ==
    IF t = 0 THEN Undef
    ELSE IF t = Newer THEN dump(variant, kc).checksum
    ELSE ChecksumOf(t)

\* Keychain.load(password, repr, trustedDataCheck) on the text of the i-th
\* dump, as it was returned or after an adversary changed it.  form "array"
\* passes the array dump returned instead of its first element.
CallLoad(password, i, how, a, b, form, t, garbled) ==
    /\ i \in 1..Len(saved)
    /\ t \in 0..Len(saved) \/ (t = Newer /\ kc.live)
    /\ garbled => variant = 3
    /\ <<how, a, b>> \in Tampers
    /\ form = "array" => how = "none" /\ t \in {0, i}
    /\ password = LongPassword => how = "none" /\ form = "string" /\ t \in {0, i} /\ ~garbled
    /\ how # "none" => Tamper(variant, saved[i].text, how, a, b) # saved[i].text
    /\ LET repr == [text |-> Tamper(variant, saved[i].text, how, a, b), checksum |-> ChecksumOf(i)]
           out == load(variant, password, repr, form, Trusted(t), garbled)
       IN  /\ kc' = IF out.err = "none" THEN out.kc ELSE kc
           /\ hist' = IF out.err = "none"
                      THEN [d \in Domains |->
                              IF HasEntry(variant, out.kc, d) THEN get(variant, out.kc, d).ret ELSE Absent]
                      ELSE hist
           /\ res' = [Res("load") EXCEPT !.pw = password, !.idx = i, !.how = how,
                                         !.a = a, !.b = b, !.form = form,
                                         !.t = t, !.err = out.err, !.steps = out.steps,
                                         !.match = (Trusted(t) = Digest(variant, repr.text))]
    /\ UNCHANGED <<variant, saved, users, req>>

Next ==
    \/ \E password \in Passwords : CallInit(password)
    \/ \E name \in Domains, value \in Secrets : CallSet(name, value)
    \/ \E name \in Domains : CallGet(name)
    \/ \E name \in Domains : CallRemove(name)
    \/ CallDump
    \/ \E i \in 1..Len(saved), t \in 0..Newer, tamper \in Tampers,
          form \in {"string", "array"}, password \in Passwords,
          garbled \in (IF variant = 3 THEN BOOLEAN ELSE {FALSE}) :
         CallLoad(password, i, tamper[1], tamper[2], tamper[3], form, t, garbled)

Spec == Init /\ [][Next]_vars

(***************************************************************************)
(* Properties                                                              *)
(***************************************************************************)
\* the store a load read its text from, and whether the load was given the
\* password that store was created with
Dumped == saved[res.idx].src

RightPassword == res.pw = PasswordOf(variant, Dumped)

\* a load of a text exactly as dump returned it
LoadOfDump == res.op = "load" /\ res.form = "string" /\ res.how = "none"

\* what load followed by get(name) gives the caller: the error of load if it
\* threw, else the error of get ("none" if get returned)
LoadThenGet(name) == IF res.err # "none" THEN res.err ELSE get(variant, kc, name).err

\* C1: a get(domain) that follows set(domain, secret) returns exactly that
\* secret, for every domain and every secret.
C1_SetThenGet ==
    [][ (res.op = "set" /\ res'.op = "get" /\ res'.name = res.name)
            => res'.ret = Str(res.value) ]_vars

\* C2: load of the text and checksum dump returned, with the password of the
\* dumped store, succeeds and gives a store whose get agrees with the get of
\* the dumped store on every domain.
C2_LoadInvertsDump ==
    (LoadOfDump /\ RightPassword /\ res.t = res.idx)
        => /\ res.err = "none"
           /\ \A d \in Domains : get(variant, kc, d).ret = get(variant, Dumped, d).ret

\* C3: a load given a trusted checksum that is not the checksum of the exact
\* text passed fails with the integrity error.
C3_RollbackDetected ==
    (res.op = "load" /\ res.form = "string" /\ res.t # 0 /\ ~res.match)
        => res.err = "IntegrityError"

\* C4: a load of a dumped text with no trusted checksum does not fail with
\* the integrity error.
C4_ChecksumOptional ==
    (LoadOfDump /\ res.t = 0) => res.err # "IntegrityError"

\* C5: get returns null for every domain that was never set, or was removed
\* after its last set.
C5_GetAbsentNull ==
    (res.op = "get" /\ hist[res.name] = Absent) => res.ret = Null

\* C6: remove(d) returns true exactly when the store held an entry for d
\* before the call, false otherwise, and after a true return the store holds
\* no entry for d.
C6_RemoveIffEntry ==
    [][ res'.op = "remove"
            => /\ res'.ret = (IF HasEntry(variant, kc, res'.name) THEN JsTrue ELSE JsFalse)
               /\ res'.ret = JsTrue => ~HasEntry(variant, kc', res'.name) ]_vars

\* C7: get(d) returns the secret of the most recent set(d, .) not followed by
\* remove(d), and the number of entries is the number of domains so set.
C7_LastSetWins ==
    kc.live =>
        /\ \A d \in Domains :
             get(variant, kc, d).ret = (IF hist[d] = Absent THEN Null ELSE hist[d])
        /\ Cardinality(OwnKeys(kc.data)) = Cardinality({ d \in Domains : hist[d] # Absent })

\* C8: a dumped text loaded with another master password gives a store whose
\* get fails with the authentication error on every domain that has an entry.
C8_WrongPasswordFailsAuth ==
    (LoadOfDump /\ ~RightPassword /\ (res.t = 0 \/ res.match))
        => \A d \in Domains :
             HasEntry(variant, Dumped, d) => LoadThenGet(d) = "AuthenticationError"

\* C9: after the stored data of b's entry in a dumped text is modified and
\* the text is loaded with the right password and no trusted checksum,
\* get(b) yields the authentication error.
C9_TamperFailsAuth ==
    (res.op = "load" /\ res.how = "flip" /\ RightPassword /\ res.t = 0)
        => LoadThenGet(res.b) = "AuthenticationError"

\* C10: after the stored data of a's entry in a dumped text is copied into
\* b's slot and the text is loaded with the right password, get(b) fails
\* authentication and does not return a's secret.
C10_SwapFailsAuth ==
    (res.op = "load" /\ res.how = "swap" /\ RightPassword /\ res.t = 0)
        => /\ LoadThenGet(res.b) = "AuthenticationError"
           /\ res.err = "none" => get(variant, kc, res.b).ret # get(variant, Dumped, res.a).ret


(***************************************************************************)
(* What a dumped text shows                                                *)
(***************************************************************************)
\* the secret an object holds for a domain
SecretOf(v, k, name) ==
    LET held == k.data.own[SlotOf(v, name)].s
    IN  IF v = 3 THEN bufferToString(decodeBuffer(held)) ELSE held

\* the (domain, secret) entries an object holds
Entries(v, k) == { <<d, SecretOf(v, k, d)>> : d \in { n \in Domains : HasEntry(v, k, n) } }

\* What stands readable in a dumped text, for a reader without any key: the
\* salt and the iv, and of data that is not encrypted its strings and the
\* names of its properties
Cleartext(text) ==
    LET pt == text.data.pt
    IN  {text.salt, text.iv}
        \union (IF text.data.alg # "none" THEN {}
                ELSE { pt.own[k] : k \in { j \in Keys : pt.own[j].t = "string" } }
                     \union { Str(k) : k \in { j \in Keys : pt.kind = "object" /\ pt.own[j] # Absent } })

\* C11: the text of a dump shows no domain name of the dumped store, no
\* (non-empty) secret of it, not its master password and not its key
C11_DumpShowsNothing ==
    \A i \in 1..Len(saved) :
        LET src == saved[i].src
            clear == Cleartext(saved[i].text)
        IN  /\ \A d \in Domains :
                   HasEntry(variant, src, d)
                       => /\ Str(d) \notin clear
                          /\ SecretOf(variant, src, d) # <<>> => Str(SecretOf(variant, src, d)) \notin clear
            /\ Str(PasswordOf(variant, src)) \notin clear
            /\ src.key \notin clear

\* C12: a dump is a function of the salt, the key and the entries: when the
\* store holds the entries it held at an earlier dump, dump returns the
\* text and the checksum of that dump again
C12_DumpCanonical ==
    \A i \in 1..Len(saved) :
        (kc.live /\ Entries(variant, kc) = Entries(variant, saved[i].src))
            => dump(variant, kc) = dump(variant, saved[i].src)

\* C13: the key under which a store keeps the entry of a domain is not the
\* key under which a store created with another master password, and
\* holding the same entry, keeps it
C13_IndexDependsOnPassword ==
    \A d \in Domains, q \in ShortPasswords, salt \in getRandomBytes :
        (kc.live /\ HasEntry(variant, kc, d) /\ q # PasswordOf(variant, kc))
            => LET other == set(variant, init(variant, q, salt, kc.iv).kc, d, SecretOf(variant, kc, d)).kc
               IN  OwnKeys(other.data) \cap OwnKeys(kc.data) = {}

C15_VerifyBeforeDecrypt ==
    res.op = "load"
        => /\ \A i, j \in 1..Len(res.steps) :
                  (res.steps[i] \in {"derive", "decrypt"} /\ res.steps[j] = "verify") => j < i
           /\ (res.form = "string" /\ res.t # 0 /\ ~res.match)
                  => /\ res.err = "IntegrityError"
                     /\ \A i \in 1..Len(res.steps) : res.steps[i] \notin {"derive", "decrypt"}

(***************************************************************************)
(* The users controller (src/server/controllers/users.js).  A handler is   *)
(* an async function: each action below runs it from one await to the      *)
(* next.  The argument ok of a step says whether the awaited call on the   *)
(* collection (or on bcrypt) returned or threw.                            *)
(***************************************************************************)
\* the slot of a request is free for the next request
Free(r) == req[r].pc \in {"idle", "done"}

\* a request that has come in
Start(op, id, friendId, oldPassword, newPassword) ==
    Request(op, "start", id, friendId, oldPassword, newPassword, users)

At(q, pc) == [q EXCEPT !.pc = pc]

\* res.status(status).json(body), res.redirect: the handler returns, and the
\* documents it held are gone
Respond(q, status, body) ==
    [q EXCEPT !.pc = "done", !.status = status, !.body = body,
              !.user = NoDoc, !.friend = NoDoc, !.newPasswordHash = hash(<<>>, 0)]

\* the request has made a call on the collection
Called(q, call) == [q EXCEPT !.calls = Append(@, call)]

\* User.findById(id): the document, or null
findById(id) ==
    IF id \in UserIds
    THEN [id |-> id, friends |-> users[id].friends, password |-> users[id].password]
    ELSE NoDoc

\* friends.map(({ _id, ... }) => ...) over the documents found for a list of
\* ids: destructuring null throws
formattedFriends(friends) ==
    IF \E i \in 1..Len(friends) : findById(friends[i]) = NoDoc
    THEN [err |-> "TypeError", body |-> <<>>]
    ELSE [err |-> "none", body |-> [i \in 1..Len(friends) |-> findById(friends[i]).id]]

\* getUser (lines 5-13)
getUser(r, id) ==
    /\ Free(r)
    /\ req' = [req EXCEPT ![r] = At(Start("getUser", id, 0, <<>>, <<>>), "findById")]
    /\ UNCHANGED <<users, kvars>>

getUser_findById(r, ok) ==
    /\ req[r].op = "getUser" /\ req[r].pc = "findById"
    /\ LET q == Called(req[r], "findById")
           user == findById(q.id)
       IN  req' = [req EXCEPT ![r] =
                     IF ~ok THEN Respond(q, 404, <<>>)
                     ELSE Respond(q, 200, IF user = NoDoc THEN <<>> ELSE <<user.id>>)]
    /\ UNCHANGED <<users, kvars>>

\* getUserFriends (lines 15-32)
getUserFriends(r, id) ==
    /\ Free(r)
    /\ req' = [req EXCEPT ![r] = At(Start("getUserFriends", id, 0, <<>>, <<>>), "findById")]
    /\ UNCHANGED <<users, kvars>>

getUserFriends_findById(r, ok) ==
    /\ req[r].op = "getUserFriends" /\ req[r].pc = "findById"
    /\ LET q == Called(req[r], "findById")
           user == findById(q.id)
       IN  req' = [req EXCEPT ![r] =
                     IF ~ok THEN Respond(q, 404, <<>>)
                     \* user.friends of null throws
                     ELSE IF user = NoDoc THEN Respond(q, 404, <<>>)
                     ELSE At([q EXCEPT !.user = user], "all")]
    /\ UNCHANGED <<users, kvars>>

getUserFriends_all(r, ok) ==
    /\ req[r].op = "getUserFriends" /\ req[r].pc = "all"
    /\ LET q == Called(req[r], "findById*")
           found == formattedFriends(q.user.friends)
       IN  req' = [req EXCEPT ![r] =
                     IF ~ok \/ found.err # "none" THEN Respond(q, 404, <<>>)
                     ELSE Respond(q, 200, found.body)]
    /\ UNCHANGED <<users, kvars>>

\* addRemoveFriend (lines 35-80), with the redirect of line 43 left out
addRemoveFriend_noRedirect(r, id, friendId) ==
    /\ Free(r)
    /\ req' = [req EXCEPT ![r] = At(Start("addRemoveFriend", id, friendId, <<>>, <<>>), "findUser")]
    /\ UNCHANGED <<users, kvars>>

\* addRemoveFriend (lines 35-80): up to the first await
addRemoveFriend(r, id, friendId) ==
    /\ Free(r)
    /\ (id \in UserIds /\ friendId \in UserIds /\ friendId \notin Elems(users[id].friends))
           => Len(users[id].friends) < MaxFriends /\ Len(users[friendId].friends) < MaxFriends
    /\ LET q == Start("addRemoveFriend", id, friendId, <<>>, <<>>)
       IN  req' = [req EXCEPT ![r] =
                     IF id = friendId THEN Respond(q, 302, <<>>) ELSE At(q, "findUser")]
    /\ UNCHANGED <<users, kvars>>

addRemoveFriend_findUser(r, ok) ==
    /\ req[r].op = "addRemoveFriend" /\ req[r].pc = "findUser"
    /\ LET q == Called(req[r], "findById")
       IN  req' = [req EXCEPT ![r] =
                     IF ~ok THEN Respond(q, 500, <<>>)
                     ELSE At([q EXCEPT !.user = findById(q.id)], "findFriend")]
    /\ UNCHANGED <<users, kvars>>

\* lines 57-63 on the two documents read
toggle(user, friend, id, friendId) ==
    IF friendId \in Elems(user.friends)
    THEN [user |-> [user EXCEPT !.friends = SelectSeq(@, LAMBDA x : x # friendId)],
          \* friend.friends.filter((id) => id !== id): the parameter hides the id
          \* of the request, and no element differs from itself
          friend |-> [friend EXCEPT !.friends = SelectSeq(@, LAMBDA x : x # x)]]
    ELSE [user |-> [user EXCEPT !.friends = Append(@, friendId)],
          friend |-> [friend EXCEPT !.friends = Append(@, id)]]

\* the second findById and the code up to user.save()
addRemoveFriend_findFriend(r, ok) ==
    /\ req[r].op = "addRemoveFriend" /\ req[r].pc = "findFriend"
    /\ LET q == Called(req[r], "findById")
           user == q.user
           friend == findById(q.friendId)
           both == toggle(user, friend, q.id, q.friendId)
       IN  req' = [req EXCEPT ![r] =
                     IF ~ok THEN Respond(q, 500, <<>>)
                     ELSE IF user = NoDoc \/ friend = NoDoc THEN Respond(q, 404, <<>>)
                     ELSE At([q EXCEPT !.user = both.user, !.friend = both.friend], "saveUser")]
    /\ UNCHANGED <<users, kvars>>

\* await user.save()
addRemoveFriend_saveUser(r, ok) ==
    /\ req[r].op = "addRemoveFriend" /\ req[r].pc = "saveUser"
    /\ LET q == Called(req[r], "save")
       IN  IF ok
           THEN /\ users' = [users EXCEPT ![q.id].friends = q.user.friends]
                /\ req' = [req EXCEPT ![r] = At(q, "saveFriend")]
           ELSE /\ users' = users
                /\ req' = [req EXCEPT ![r] = Respond(q, 500, <<>>)]
    /\ UNCHANGED kvars

\* await friend.save()
addRemoveFriend_saveFriend(r, ok) ==
    /\ req[r].op = "addRemoveFriend" /\ req[r].pc = "saveFriend"
    /\ LET q == Called(req[r], "save")
       IN  IF ok
           THEN /\ users' = [users EXCEPT ![q.friendId].friends = q.friend.friends]
                /\ req' = [req EXCEPT ![r] = At(q, "all")]
           ELSE /\ users' = users
                /\ req' = [req EXCEPT ![r] = Respond(q, 500, <<>>)]
    /\ UNCHANGED kvars

\* await Promise.all(user.friends.map(...)) and the response
addRemoveFriend_all(r, ok) ==
    /\ req[r].op = "addRemoveFriend" /\ req[r].pc = "all"
    /\ LET q == Called(req[r], "findById*")
           found == formattedFriends(q.user.friends)
       IN  req' = [req EXCEPT ![r] =
                     IF ~ok \/ found.err # "none" THEN Respond(q, 500, <<>>)
                     ELSE Respond(q, 200, found.body)]
    /\ UNCHANGED <<users, kvars>>

\* changePassword (lines 83-118): up to the first await
changePassword(r, userId, oldPassword, newPassword) ==
    /\ Free(r)
    /\ LET q == Start("changePassword", userId, 0, oldPassword, newPassword)
       IN  req' = [req EXCEPT ![r] =
                     IF oldPassword = <<>> \/ newPassword = <<>>
                     THEN Respond(q, 400, <<>>)
                     ELSE At(q, "findById")]
    /\ UNCHANGED <<users, kvars>>

changePassword_findById(r, ok) ==
    /\ req[r].op = "changePassword" /\ req[r].pc = "findById"
    /\ LET q == Called(req[r], "findById")
           user == findById(q.id)
       IN  req' = [req EXCEPT ![r] =
                     IF ~ok THEN Respond(q, 500, <<>>)
                     ELSE IF user = NoDoc THEN Respond(q, 404, <<>>)
                     ELSE At([q EXCEPT !.user = user], "compare")]
    /\ UNCHANGED <<users, kvars>>

\* lines 95-110 with the comparison of line 95-96 left out
changePassword_hash_noCompare(r, ok, salt) ==
    /\ req[r].op = "changePassword" /\ req[r].pc = "compare"
    /\ LET q == req[r]
       IN  req' = [req EXCEPT ![r] =
                     IF ~ok THEN Respond(q, 500, <<>>)
                     ELSE IF ~passwordComplexityRegex(q.newPassword) THEN Respond(q, 400, <<>>)
                     ELSE At([q EXCEPT !.newPasswordHash = hash(q.newPassword, salt)], "save")]
    /\ UNCHANGED <<users, kvars>>

\* bcrypt.compare, the complexity rule, bcrypt.genSalt and bcrypt.hash
\* (lines 95-110): three awaits that touch nothing but the request
changePassword_hash(r, ok, salt) ==
    /\ req[r].op = "changePassword" /\ req[r].pc = "compare"
    /\ LET q == req[r]
           isMatch == compare(q.oldPassword, q.user.password)
       IN  req' = [req EXCEPT ![r] =
                     IF ~ok THEN Respond(q, 500, <<>>)
                     ELSE IF ~isMatch THEN Respond(q, 400, <<>>)
                     ELSE IF ~passwordComplexityRegex(q.newPassword) THEN Respond(q, 400, <<>>)
                     ELSE At([q EXCEPT !.newPasswordHash = hash(q.newPassword, salt)], "save")]
    /\ UNCHANGED <<users, kvars>>

\* user.password = newPasswordHash; await user.save()
changePassword_save(r, ok) ==
    /\ req[r].op = "changePassword" /\ req[r].pc = "save"
    /\ LET q == Called([req[r] EXCEPT !.user.password = req[r].newPasswordHash], "save")
       IN  IF ok
           THEN /\ users' = [users EXCEPT ![q.id].password = q.user.password]
                /\ req' = [req EXCEPT ![r] = Respond(q, 200, <<>>)]
           ELSE /\ users' = users
                /\ req' = [req EXCEPT ![r] = Respond(q, 500, <<>>)]
    /\ UNCHANGED kvars

ServerInit ==
    /\ variant = 1
    /\ kc = NoKeychain
    /\ saved = <<>>
    /\ res = Res("start")
    /\ hist = [d \in Domains |-> Absent]
    /\ ServerStart

ServerNext ==
    \/ \E r \in Reqs, id \in Ids : getUser(r, id)
    \/ \E r \in Reqs, ok \in BOOLEAN : getUser_findById(r, ok)
    \/ \E r \in Reqs, id \in Ids : getUserFriends(r, id)
    \/ \E r \in Reqs, ok \in BOOLEAN : getUserFriends_findById(r, ok)
    \/ \E r \in Reqs, ok \in BOOLEAN : getUserFriends_all(r, ok)
    \/ \E r \in Reqs, id \in Ids, friendId \in Ids : addRemoveFriend(r, id, friendId)
    \/ \E r \in Reqs, ok \in BOOLEAN : addRemoveFriend_findUser(r, ok)
    \/ \E r \in Reqs, ok \in BOOLEAN : addRemoveFriend_findFriend(r, ok)
    \/ \E r \in Reqs, ok \in BOOLEAN : addRemoveFriend_saveUser(r, ok)
    \/ \E r \in Reqs, ok \in BOOLEAN : addRemoveFriend_saveFriend(r, ok)
    \/ \E r \in Reqs, ok \in BOOLEAN : addRemoveFriend_all(r, ok)
    \/ \E r \in Reqs, userId \in Changers, oldPassword \in OldPasswords, newPassword \in NewPasswords :
         changePassword(r, userId, oldPassword, newPassword)
    \/ \E r \in Reqs, ok \in BOOLEAN : changePassword_findById(r, ok)
    \/ \E r \in Reqs, ok \in BOOLEAN, salt \in genSalt : changePassword_hash(r, ok, salt)
    \/ \E r \in Reqs, ok \in BOOLEAN : changePassword_save(r, ok)

ServerSpec == ServerInit /\ [][ServerNext]_vars

(***************************************************************************)
(* Properties of the users controller                                      *)
(***************************************************************************)
\* an addRemoveFriend request that has been answered
Answered(r) == req[r].op = "addRemoveFriend" /\ req[r].pc = "done"

\* the friends list of user u when request r came in
FriendsBefore(r, u) == req[r].before[u].friends

\* C16: a step of an addRemoveFriend request whose id equals its friendId
\* changes no user's document: the request is answered with the redirect at
\* once, having made no call on the collection.
C16_SelfRequestRedirects ==
    [][ \A r \in Reqs :
          (req'[r] # req[r] /\ req'[r].op = "addRemoveFriend" /\ req'[r].id = req'[r].friendId)
              => /\ users' = users
                 /\ req'[r].pc = "done"
                 /\ req'[r].status = 302
                 /\ req'[r].calls = <<>> ]_vars

C16_Redirected ==
    \E r \in Reqs : Answered(r) /\ req[r].id = req[r].friendId /\ req[r].status = 302

\* C17: when addRemoveFriend(id, friendId) has answered 200, then, if
\* friendId was in id's list, id's list is what it was without friendId and
\* friendId's list what it was without id; otherwise each list is what it
\* was with the other user appended; every other user's list is what it was.
C17_TogglesOneFriendship ==
    \A r \in Reqs :
        (Answered(r) /\ req[r].status = 200)
            => LET id == req[r].id
                   friendId == req[r].friendId
               IN  /\ IF friendId \in Elems(FriendsBefore(r, id))
                      THEN /\ users[id].friends = Without(FriendsBefore(r, id), friendId)
                           /\ users[friendId].friends = Without(FriendsBefore(r, friendId), id)
                      ELSE /\ users[id].friends = Append(FriendsBefore(r, id), friendId)
                           /\ users[friendId].friends = Append(FriendsBefore(r, friendId), id)
                   /\ \A u \in UserIds \ {id, friendId} : users[u].friends = FriendsBefore(r, u)

\* the request has read the user's document and is about to check the passwords
\* or to save: every condition of a password change holds for it
Accepted(q) ==
    /\ q.oldPassword # <<>> /\ q.newPassword # <<>>
    /\ q.user # NoDoc
    /\ compare(q.oldPassword, q.user.password)
    /\ passwordComplexityRegex(q.newPassword)

\* C18: a step changes the stored password hash of a user only if it is the
\* step of a changePassword request of that user for which both passwords
\* were supplied, the user exists, oldPassword matches the hash read and
\* newPassword satisfies the complexity rule, and that request is answered
\* 200; a changePassword request answered otherwise is answered 400, 404 or
\* 500 by a step that leaves every stored hash as it is.
C18_PasswordChangedOnlyWhenValid ==
    [][ /\ \A u \in UserIds :
             users'[u].password # users[u].password
                 => \E r \in Reqs : /\ req[r].op = "changePassword" /\ req[r].id = u
                                    /\ Accepted(req[r])
                                    /\ req'[r].pc = "done" /\ req'[r].status = 200
        /\ \A r \in Reqs :
             (req'[r] # req[r] /\ req'[r].op = "changePassword" /\ req'[r].pc = "done")
                 => \/ /\ req'[r].status = 200
                       /\ Accepted(req[r])
                       /\ users'[req[r].id].password = hash(req[r].newPassword, req[r].newPasswordHash.salt)
                    \/ /\ req'[r].status \in {400, 404, 500}
                       /\ \A u \in UserIds : users'[u].password = users[u].password ]_vars

C18_PasswordChanged ==
    \E r \in Reqs : /\ req[r].op = "changePassword" /\ req[r].pc = "done" /\ req[r].status = 200
                    /\ users[req[r].id].password # req[r].before[req[r].id].password

\* C19: whenever no request is in flight, B is in A's friends list exactly
\* if A is in B's, and no list holds the same user twice.
C19_FriendshipSymmetric ==
    (\A r \in Reqs : Free(r))
        => /\ \A a, b \in UserIds : (b \in Elems(users[a].friends)) <=> (a \in Elems(users[b].friends))
           /\ \A a \in UserIds : Cardinality(Elems(users[a].friends)) = Len(users[a].friends)

\* C20: when addRemoveFriend has answered 404 or 500, every user's friends
\* list is what it was when the request came in.
C20_AllOrNothing ==
    \A r \in Reqs :
        (Answered(r) /\ req[r].status \in {404, 500})
            => \A u \in UserIds : users[u].friends = FriendsBefore(r, u)

(***************************************************************************)
(* Two addRemoveFriend requests in flight at once.  Node runs one handler  *)
(* at a time but switches between them at every await, so the steps of the *)
(* two requests interleave in any order.  The two requests are on the pair *)
(* of users 1 and 2, every awaited call returns, and each slot takes one   *)
(* request.                                                                *)
(***************************************************************************)
Racers == {1, 2}

\* the collection with users 1 and 2 in each other's list
Befriended == [NoFriends EXCEPT ![1].friends = <<2>>, ![2].friends = <<1>>]

RaceInit ==
    /\ variant = 1
    /\ kc = NoKeychain
    /\ saved = <<>>
    /\ res = Res("start")
    /\ hist = [d \in Domains |-> Absent]
    /\ users \in {NoFriends, Befriended}
    /\ req = [r \in Racers |-> Request("none", "idle", 0, 0, <<>>, <<>>, users)]

RaceNext ==
    \/ \E r \in Racers, id \in {1, 2}, friendId \in {1, 2} :
         /\ req[r].pc = "idle"
         /\ id # friendId
         /\ addRemoveFriend(r, id, friendId)
    \/ \E r \in Racers : addRemoveFriend_findUser(r, TRUE)
    \/ \E r \in Racers : addRemoveFriend_findFriend(r, TRUE)
    \/ \E r \in Racers : addRemoveFriend_saveUser(r, TRUE)
    \/ \E r \in Racers : addRemoveFriend_saveFriend(r, TRUE)
    \/ \E r \in Racers : addRemoveFriend_all(r, TRUE)

RaceSpec == RaceInit /\ [][RaceNext]_vars

\* the collection after addRemoveFriend(id, friendId) has run alone, from
\* its first read to its second save, on the collection db
RunAlone(db, id, friendId) ==
    LET user == [id |-> id, friends |-> db[id].friends, password |-> db[id].password]
        friend == [id |-> friendId, friends |-> db[friendId].friends,
                   password |-> db[friendId].password]
        both == toggle(user, friend, id, friendId)
    IN  [db EXCEPT ![id].friends = both.user.friends,
                   ![friendId].friends = both.friend.friends]

\* what the two requests leave when one runs after the other, from db
Serial(db, p, q) ==
    { RunAlone(RunAlone(db, p.id, p.friendId), q.id, q.friendId),
      RunAlone(RunAlone(db, q.id, q.friendId), p.id, p.friendId) }

\* C21: when two addRemoveFriend requests on users 1 and 2 that came in on
\* the same collection have both been answered 200, the collection is one
\* that the two requests leave when one runs after the other.
C21_Serializable ==
    (/\ \A r \in Racers : Answered(r) /\ req[r].status = 200
     /\ req[1].before = req[2].before)
        => users \in Serial(req[1].before, req[1], req[2])
====
